---- MODULE Spec2Model ----
(***************************************************************************)
(* The compiler driver of rcc (src/src/lib.rs): Driver::compile and the    *)
(* helpers it calls, as a state machine over the files of the working      *)
(* directory.  Each Driver instance walks through compile one call at a    *)
(* time; the verdicts of the in-process stages are attributes of the input *)
(* program, the exit of each external tool is chosen when it is called.    *)
(***************************************************************************)
EXTENDS Naturals, Sequences, FiniteSets, TLC

VARIABLES
    drivers,    \* the Driver instances that exist
    feature,    \* whether the crate is built with the "llvm" feature
    path,       \* Driver.path of each instance
    name,       \* Driver.name of each instance
    stage,      \* compile's argument `stage`
    link,       \* compile's argument `link`
    llvm,       \* compile's argument `_llvm`
    input,      \* the in-process stages that fail on the instance's input
    cli,        \* the command line main parsed, when compile is run by main
    pc,         \* the call compile is about to make
    outcome,    \* "running", "Ok", an ErrorKind, or "Panic"
    fs,         \* the paths that exist in the working directory
    ran,        \* per instance, the stages and tools run so far with their results
    touched,    \* per instance, the paths it (or a tool it ran) accessed
    made,       \* per instance, the paths it (or a tool it ran) created
    used,       \* per instance, the paths a later step read as its input
    solo        \* per instance, the directory as its own steps alone leave it

cfg == <<drivers, feature, path, name, stage, link, llvm, input, cli>>
files == <<fs, touched, made, used, solo>>
vars == <<drivers, feature, path, name, stage, link, llvm, input, cli,
          pc, outcome, fs, ran, touched, made, used, solo>>

(***************************************************************************)
(* Bounds and input sets.                                                  *)
(***************************************************************************)
MaxStemLen == 2

Alphabet == {"a", ".", "c"}

Stems == UNION {[1..n -> Alphabet] : n \in 1..MaxStemLen}

InputPaths == {s \o <<".", "c">> : s \in Stems}

\* Input paths of two instances that run side by side.
PairPaths == {<<"a", ".", "c">>, <<"c", ".", "c">>, <<"a", ".", "s", ".", "c">>}

(***************************************************************************)
(* enum CompileStage and enum ErrorKind.                                   *)
(***************************************************************************)
CompileStage == {"Lex", "Parse", "Validate", "IR", "Codegen", "Full"}

ErrorKind == {"LexerError", "ParserError", "SemanticError", "TypeCheckError",
              "CodegenError", "AsmEmitError", "IOError"}

\* What a value of ErrorKind carries besides its kind: every variant is a
\* unit variant, and `.map_err(|_| kind)` drops the stage's own error.
error_fields(kind) == {}

\* The in-process stages whose result is a Result<_, _>.
Fallible == {"Lex", "Parse", "Resolve", "Typecheck", "Codegen", "Emit"}

\* How a Command::status() call can end: the binary cannot be launched, it
\* exits with status zero, it exits with another status.
ToolExit == {"missing", "zero", "nonzero"}

\* How File::create followed by write_all can end.
WriteResult == {"ok", "create_failed", "write_failed"}

(***************************************************************************)
(* The command line (src/src/main.rs).                                     *)
(***************************************************************************)
\* struct Cli: the three flags beside the positional path; `main` tells a
\* run started by main from a direct call of Driver::compile.
Cli == [main : {TRUE}, lex : BOOLEAN, parse : BOOLEAN, code_gen : BOOLEAN]

\* A direct call of Driver::compile: no command line.
NoCli == [main |-> FALSE, lex |-> FALSE, parse |-> FALSE, code_gen |-> FALSE]

\* The free function compile(path) that main calls: it is given the path
\* alone and runs the whole pipeline on it.
compile_path_stage == "Full"

\* main: `compile(&cli.path);` -- no flag of cli is read.
main_stage(c) == compile_path_stage

\* main: returns () after the call whatever compile returned; a panic ends
\* the process with status 101.
main_exit(out) == IF out = "Panic" THEN 101 ELSE 0

(***************************************************************************)
(* Path arithmetic.  A path is a sequence of characters.                   *)
(***************************************************************************)
HasPrefix(s, p) == Len(s) >= Len(p) /\ SubSeq(s, 1, Len(p)) = p

\* str::replace: every non-overlapping match, left to right.
RECURSIVE replace(_, _, _)
replace(s, from, to) ==
    IF s = <<>> THEN <<>>
    ELSE IF HasPrefix(s, from)
         THEN to \o replace(SubSeq(s, Len(from) + 1, Len(s)), from, to)
         ELSE <<Head(s)>> \o replace(Tail(s), from, to)

\* Driver::new: name is path without its last two bytes.
new(p) == SubSeq(p, 1, Len(p) - 2)

\* preprocess: output_path
preprocess_output(p) == replace(p, <<".", "c">>, <<".", "i">>)

\* clean_preprocessed: the path removed
preprocessed_file(n) == n \o <<".", "i">>

\* emit, llvm_asm, clean_asm: the assembly file
asm_file(n) == n \o <<".", "s">>

\* emit_llvm, clean_llvm: the LLVM IR file
llvm_file(n) == n \o <<".", "l", "l">>

\* The -o argument left out: gcc links to a.out.
out_name_default(n, l) ==
    IF l THEN <<"a", ".", "o", "u", "t">> ELSE n \o <<".", "o">>

\* The two branches of out_name exchanged.
out_name_swapped(n, l) == IF l THEN n \o <<".", "o">> ELSE n

\* assemble: out_name
out_name(n, l) == IF l THEN n ELSE n \o <<".", "o">>

(***************************************************************************)
(* The decisions compile and its helpers take between two calls.           *)
(***************************************************************************)
\* compile, after lex: `if stage.is_lex() { return Ok(()) }`
after_lex(st) == IF st = "Lex" THEN "return" ELSE "parse"

after_parse_no_stop(st) == "validate"

\* compile, after parse: `if stage.is_parse() { return Ok(()) }`
after_parse(st) == IF st = "Parse" THEN "return" ELSE "validate"

\* compile, after typecheck: `if stage.is_validate() { return Ok(()) }`,
\* then the cfg_if that selects llvm_asm_path or asm_path.
after_typecheck(st, feat, l) ==
    IF st = "Validate" THEN "return"
    ELSE IF feat /\ l THEN "generate_llvm_ir" ELSE "generate_ir"

\* generate_ir treated as able to fail: asm_path gives up after it.
after_generate_ir_stops(st) == "return"

\* asm_path, after generate_ir: `if stage.is_ir() { return Ok(None) }`
after_generate_ir(st) == IF st = "IR" THEN "return" ELSE "codegen"

\* The is_codegen test left out.
after_codegen_no_stop(st) == "emit"

\* asm_path, after codegen: `if stage.is_codegen() { return Ok(None) }`
after_codegen(st) == IF st = "Codegen" THEN "return" ELSE "emit"

\* llvm_asm_path, after generate_llvm_ir: `if stage.is_ir() { return None }`
after_generate_llvm_ir(st) == IF st = "IR" THEN "return" ELSE "emit_llvm"

\* What a stage's Result becomes in compile: `.map_err(|_| kind)?`
map_err(ok, kind) == IF ok THEN "Ok" ELSE kind

\* Driver::emit: code.emit() mapped to AsmEmitError, File::create and
\* write_all mapped to IOError.
emit_result(asmOk, w) ==
    IF ~asmOk THEN "AsmEmitError"
    ELSE IF w = "ok" THEN "Ok" ELSE "IOError"

\* asm_path: `Ok(Some(self.emit(code).unwrap()))`
unwrap_emit(r) == IF r = "Ok" THEN "Ok" ELSE "Panic"

\* Command::status().expect(..) with the status dropped: only a failure to
\* launch the tool stops the caller.
expect_status(exit) == IF exit = "missing" THEN "Panic" ELSE "Ok"

\* fs::read_to_string(p).unwrap() and fs::remove_file(p).unwrap()
unwrap_file(exists) == IF exists THEN "Ok" ELSE "Panic"

(***************************************************************************)
(* Bookkeeping shared by the actions.                                      *)
(***************************************************************************)
Log(d, st, res) ==
    ran' = [ran EXCEPT ![d] = Append(@, [st |-> st, res |-> res])]

Goto(d, next) ==
    /\ pc' = [pc EXCEPT ![d] = next]
    /\ UNCHANGED outcome

Return(d, out) ==
    /\ pc' = [pc EXCEPT ![d] = "done"]
    /\ outcome' = [outcome EXCEPT ![d] = out]

\* Continue at `next`, or return Ok when the stop stage is reached.
Continue(d, next) ==
    IF next = "return" THEN Return(d, "Ok") ELSE Goto(d, next)

\* The instance's step adds `add`, removes `del`, accesses `acc`, creates
\* `mk` and consumes `use`.
Files(d, add, del, acc, mk, use) ==
    /\ fs' = (fs \ del) \cup add
    /\ solo' = [solo EXCEPT ![d] = (@ \ del) \cup add]
    /\ touched' = [touched EXCEPT ![d] = @ \cup acc]
    /\ made' = [made EXCEPT ![d] = @ \cup mk]
    /\ used' = [used EXCEPT ![d] = @ \cup use]

(***************************************************************************)
(* compile, line by line.                                                  *)
(***************************************************************************)
\* preprocess: gcc -E -P path -o output_path; the status is dropped.
preprocess(d) ==
    /\ pc[d] = "preprocess"
    /\ \E exit \in ToolExit, wrote \in BOOLEAN :
        LET out == preprocess_output(path[d]) IN
        /\ exit = "zero" => wrote
        /\ exit = "missing" => ~wrote
        /\ Log(d, "Preprocess", exit)
        /\ IF exit = "missing"
           THEN UNCHANGED files
           ELSE Files(d, IF wrote THEN {out} ELSE {},
                         IF wrote THEN {} ELSE {out},
                         {path[d], out},
                         IF wrote THEN {out} ELSE {}, {})
        /\ IF expect_status(exit) = "Panic"
           THEN Return(d, "Panic")
           ELSE Goto(d, "read_preprocessed")
    /\ UNCHANGED cfg

\* compile: fs::read_to_string(preprocessed_path).unwrap()
read_preprocessed(d) ==
    /\ pc[d] = "read_preprocessed"
    /\ LET p == preprocess_output(path[d]) IN
        /\ Files(d, {}, {}, {p}, {}, IF p \in fs THEN {p} ELSE {})
        /\ IF unwrap_file(p \in fs) = "Panic"
           THEN Return(d, "Panic")
           ELSE Goto(d, "clean_preprocessed")
    /\ UNCHANGED <<cfg, ran>>

\* compile: self.clean_preprocessed().unwrap()
clean_preprocessed(d) ==
    /\ pc[d] = "clean_preprocessed"
    /\ LET p == preprocessed_file(name[d]) IN
        /\ Files(d, {}, {p}, {p}, {}, {})
        /\ IF unwrap_file(p \in fs) = "Panic"
           THEN Return(d, "Panic")
           ELSE Goto(d, "lex")
    /\ UNCHANGED <<cfg, ran>>

\* A stage whose Result compile maps to `kind` and propagates with `?`.
Stage(d, at, st, kind, next) ==
    /\ pc[d] = at
    /\ LET r == map_err(st \notin input[d], kind) IN
        /\ Log(d, st, IF r = "Ok" THEN "ok" ELSE "err")
        /\ IF r = "Ok" THEN Continue(d, next) ELSE Return(d, r)
    /\ UNCHANGED <<cfg, files>>

lex(d) == Stage(d, "lex", "Lex", "LexerError", after_lex(stage[d]))

parse(d) == Stage(d, "parse", "Parse", "ParserError", after_parse(stage[d]))

\* The resolver's error dropped instead of propagated.
validate_unchecked(d) ==
    /\ pc[d] = "validate"
    /\ Log(d, "Resolve", IF "Resolve" \in input[d] THEN "err" ELSE "ok")
    /\ Goto(d, "typecheck")
    /\ UNCHANGED <<cfg, files>>

validate(d) == Stage(d, "validate", "Resolve", "SemanticError", "typecheck")

typecheck(d) ==
    Stage(d, "typecheck", "Typecheck", "TypeCheckError",
          after_typecheck(stage[d], feature, llvm[d]))

\* asm_path: generate_ir returns an ir::Program, not a Result.
generate_ir(d) ==
    /\ pc[d] = "generate_ir"
    /\ Log(d, "IR", "ok")
    /\ Continue(d, after_generate_ir(stage[d]))
    /\ UNCHANGED <<cfg, files>>

codegen(d) ==
    Stage(d, "codegen", "Codegen", "CodegenError", after_codegen(stage[d]))

\* asm_path: self.emit(code).unwrap()
emit(d) ==
    /\ pc[d] = "emit"
    /\ \E w \in WriteResult :
        LET r == emit_result("Emit" \notin input[d], w)
            p == asm_file(name[d])
            created == "Emit" \notin input[d] /\ w # "create_failed"
        IN
        /\ "Emit" \in input[d] => w = "ok"
        /\ Log(d, "Emit", IF r = "Ok" THEN "ok"
                          ELSE IF r = "IOError" THEN "io" ELSE "err")
        /\ IF "Emit" \in input[d]
           THEN UNCHANGED files
           ELSE Files(d, IF created THEN {p} ELSE {}, {}, {p},
                         IF created THEN {p} ELSE {}, {})
        /\ IF unwrap_emit(r) = "Panic"
           THEN Return(d, "Panic")
           ELSE Goto(d, "assemble")
    /\ UNCHANGED cfg

\* assemble: gcc [-c] path -masm=intel -g -o out_name; the status is dropped.
assemble(d) ==
    /\ pc[d] = "assemble"
    /\ \E exit \in ToolExit, wrote \in BOOLEAN :
        LET p == asm_file(name[d])
            out == out_name(name[d], link[d])
        IN
        /\ exit = "zero" => wrote
        /\ exit = "missing" => ~wrote
        /\ Log(d, "Assemble", exit)
        /\ IF exit = "missing"
           THEN UNCHANGED files
           ELSE Files(d, IF wrote THEN {out} ELSE {}, {}, {p, out},
                         IF wrote THEN {out} ELSE {}, {p})
        /\ IF expect_status(exit) = "Panic"
           THEN Return(d, "Panic")
           ELSE Goto(d, "clean_asm")
    /\ UNCHANGED cfg

\* compile: self.clean_asm().unwrap(); Ok(())
clean_asm(d) ==
    /\ pc[d] = "clean_asm"
    /\ LET p == asm_file(name[d]) IN
        /\ Files(d, {}, {p}, {p}, {}, {})
        /\ Return(d, unwrap_file(p \in fs))
    /\ UNCHANGED <<cfg, ran>>

(***************************************************************************)
(* llvm_asm_path (feature "llvm").                                         *)
(***************************************************************************)
generate_llvm_ir(d) ==
    /\ pc[d] = "generate_llvm_ir"
    /\ Log(d, "IR", "ok")
    /\ Continue(d, after_generate_llvm_ir(stage[d]))
    /\ UNCHANGED <<cfg, files>>

\* llvm_asm_path: self.emit_llvm(&ir).unwrap()
emit_llvm(d) ==
    /\ pc[d] = "emit_llvm"
    /\ \E w \in WriteResult :
        LET p == llvm_file(name[d])
            created == w # "create_failed"
        IN
        /\ Log(d, "EmitLlvm", IF w = "ok" THEN "ok" ELSE "io")
        /\ Files(d, IF created THEN {p} ELSE {}, {}, {p},
                    IF created THEN {p} ELSE {}, {})
        /\ IF w = "ok" THEN Goto(d, "llvm_asm") ELSE Return(d, "Panic")
    /\ UNCHANGED cfg

\* llvm_asm: llc path -o output_path; the status is dropped.
llvm_asm(d) ==
    /\ pc[d] = "llvm_asm"
    /\ \E exit \in ToolExit, wrote \in BOOLEAN :
        LET p == llvm_file(name[d])
            out == asm_file(name[d])
        IN
        /\ exit = "zero" => wrote
        /\ exit = "missing" => ~wrote
        /\ Log(d, "Translate", exit)
        /\ IF exit = "missing"
           THEN UNCHANGED files
           ELSE Files(d, IF wrote THEN {out} ELSE {}, {}, {p, out},
                         IF wrote THEN {out} ELSE {}, {p})
        /\ IF expect_status(exit) = "Panic"
           THEN Return(d, "Panic")
           ELSE Goto(d, "read_asm")
    /\ UNCHANGED cfg

\* The read of S.s repeated until the file is there.
read_asm_retry(d) ==
    /\ pc[d] = "read_asm"
    /\ IF asm_file(name[d]) \in fs
       THEN Files(d, {}, {}, {asm_file(name[d])}, {}, {}) /\ Goto(d, "clean_llvm")
       ELSE UNCHANGED <<files, pc, outcome>>
    /\ UNCHANGED <<cfg, ran>>

\* llvm_asm_path: fs::read_to_string(&path).unwrap()
read_asm(d) ==
    /\ pc[d] = "read_asm"
    /\ LET p == asm_file(name[d]) IN
        /\ Files(d, {}, {}, {p}, {}, {})
        /\ IF unwrap_file(p \in fs) = "Panic"
           THEN Return(d, "Panic")
           ELSE Goto(d, "clean_llvm")
    /\ UNCHANGED <<cfg, ran>>

\* llvm_asm_path: self.clean_llvm().unwrap(); Some(path)
clean_llvm(d) ==
    /\ pc[d] = "clean_llvm"
    /\ LET p == llvm_file(name[d]) IN
        /\ Files(d, {}, {p}, {p}, {}, {})
        /\ IF unwrap_file(p \in fs) = "Panic"
           THEN Return(d, "Panic")
           ELSE Goto(d, "assemble")
    /\ UNCHANGED <<cfg, ran>>

(***************************************************************************)
(* Specifications.                                                         *)
(***************************************************************************)
\* What an earlier run may have left in the directory: the expanded source
\* of any of the instances (compile panics between writing and removing it
\* when it cannot be read as UTF-8).
Leftovers(ds) == SUBSET {preprocessed_file(name[d]) : d \in ds}

Start(ds, paths, stages, inputs) ==
    /\ drivers = ds
    /\ feature \in BOOLEAN
    /\ path \in [ds -> paths]
    /\ name = [d \in ds |-> new(path[d])]
    /\ stage \in [ds -> stages]
    /\ link \in [ds -> BOOLEAN]
    /\ llvm \in [ds -> BOOLEAN]
    /\ input \in [ds -> inputs]
    /\ pc = [d \in ds |-> "preprocess"]
    /\ outcome = [d \in ds |-> "running"]
    /\ ran = [d \in ds |-> <<>>]
    /\ touched = [d \in ds |-> {}]
    /\ made = [d \in ds |-> {}]
    /\ used = [d \in ds |-> {}]

\* One instance, any input program, any stop stage.
Init ==
    /\ Start({1}, InputPaths, CompileStage, SUBSET Fallible)
    /\ cli = [d \in {1} |-> NoCli]
    /\ fs \in Leftovers({1})
    /\ solo = [d \in {1} |-> fs]

\* Two instances side by side in a clean directory, each on a program that
\* passes every stage.
InitPair ==
    /\ Start({1, 2}, PairPaths, {"Parse", "Full"}, {{}})
    /\ cli = [d \in {1, 2} |-> NoCli]
    /\ fs = {}
    /\ solo = [d \in {1, 2} |-> fs]

Next ==
    \/ \E d \in drivers : preprocess(d)
    \/ \E d \in drivers : read_preprocessed(d)
    \/ \E d \in drivers : clean_preprocessed(d)
    \/ \E d \in drivers : lex(d)
    \/ \E d \in drivers : parse(d)
    \/ \E d \in drivers : validate(d)
    \/ \E d \in drivers : typecheck(d)
    \/ \E d \in drivers : generate_ir(d)
    \/ \E d \in drivers : codegen(d)
    \/ \E d \in drivers : emit(d)
    \/ \E d \in drivers : assemble(d)
    \/ \E d \in drivers : clean_asm(d)
    \/ \E d \in drivers : generate_llvm_ir(d)
    \/ \E d \in drivers : emit_llvm(d)
    \/ \E d \in drivers : llvm_asm(d)
    \/ \E d \in drivers : read_asm(d)
    \/ \E d \in drivers : clean_llvm(d)

Spec == Init /\ [][Next]_vars

SpecPair == InitPair /\ [][Next]_vars

\* One instance in a clean directory; compile is a single thread that goes
\* on to its next call whenever the current one has returned.
InitLive ==
    /\ Start({1}, PairPaths, CompileStage, SUBSET Fallible)
    /\ cli = [d \in {1} |-> NoCli]
    /\ fs = {}
    /\ solo = [d \in {1} |-> fs]

\* One instance run by main on a parsed command line, in a clean directory.
InitCli ==
    /\ cli \in [{1} -> Cli]
    /\ Start({1}, PairPaths, {main_stage(cli[1])}, SUBSET Fallible)
    /\ fs = {}
    /\ solo = [d \in {1} |-> fs]

SpecCli == InitCli /\ [][Next]_vars

SpecLive == InitLive /\ [][Next]_vars /\ WF_vars(Next)

(***************************************************************************)
(* What the run log says.                                                  *)
(***************************************************************************)
\* The stages of the pipeline, Lex to Assemble/Link; llc stands for Codegen
\* and Emit on the alternate backend.
PipelineStages == {"Lex", "Parse", "Resolve", "Typecheck", "IR", "Codegen",
                   "Emit", "Translate", "Assemble"}

ExternalTools == {"Preprocess", "Translate", "Assemble"}

NativeOrder == <<"Lex", "Parse", "Resolve", "Typecheck", "IR", "Codegen",
                 "Emit", "Assemble">>

AlternateOrder == <<"Lex", "Parse", "Resolve", "Typecheck", "IR",
                    "Translate", "Assemble">>

IsStage(e) == e.st \in PipelineStages

StageLog(d) == SelectSeq(ran[d], IsStage)

StageNames(d) == [i \in 1..Len(StageLog(d)) |-> StageLog(d)[i].st]

IsPrefix(s, t) == Len(s) <= Len(t) /\ s = SubSeq(t, 1, Len(s))

Succeeded(e) == e.res \in {"ok", "zero"}

Ran(d, st) == \E i \in 1..Len(ran[d]) : ran[d][i].st = st

RanWith(d, st, res) ==
    \E i \in 1..Len(ran[d]) : ran[d][i].st = st /\ ran[d][i].res = res

Alternate(d) == feature /\ llvm[d]

Done(d) == pc[d] = "done"

(***************************************************************************)
(* Claims.                                                                 *)
(***************************************************************************)
\* C1: on both backends the stages run only in the order Lex, Parse, Resolve,
\* Typecheck, IR, Codegen, Emit (the translator on the alternate backend),
\* Assemble/Link: none is skipped or reordered, and a stage starts only
\* after every earlier stage has completed successfully.
C1_StrictStageOrder ==
    \A d \in drivers :
        /\ IsPrefix(StageNames(d),
                    IF Alternate(d) THEN AlternateOrder ELSE NativeOrder)
        /\ \A i \in 1..Len(StageLog(d)) :
              i < Len(StageLog(d)) => Succeeded(StageLog(d)[i])

\* C2: with stop stage Parse none of Resolver, Type Checker, IR Generator,
\* Code Generator, Emitter runs; with stop stage Lex the Parser never runs;
\* and compile returns Ok when the stages up to the stop stage succeeded.
C2_StageGating ==
    \A d \in drivers :
        /\ stage[d] = "Parse" =>
              /\ \A st \in {"Resolve", "Typecheck", "IR", "Codegen", "Emit"} :
                    ~Ran(d, st)
              /\ RanWith(d, "Parse", "ok") => Done(d) /\ outcome[d] = "Ok"
        /\ stage[d] = "Lex" =>
              /\ ~Ran(d, "Parse")
              /\ RanWith(d, "Lex", "ok") => Done(d) /\ outcome[d] = "Ok"

C2_Witness ==
    \E d \in drivers :
        /\ stage[d] = "Parse"
        /\ RanWith(d, "Parse", "ok")
        /\ outcome[d] = "Ok"

\* C3: whichever backend is selected the driver stops at the requested
\* stage: the translator writes S.s and the assembler/linker runs only when
\* the requested stage is Full.
C3_BackendOrthogonal ==
    \A d \in drivers :
        (Ran(d, "Translate") \/ Ran(d, "Assemble")) => stage[d] = "Full"

\* C4: when lex, parse, resolve, typecheck, codegen or emit fails, compile
\* ends with exactly one typed error, no later stage runs, and no stage runs
\* twice.
C4_FailFast ==
    \A d \in drivers :
        /\ \A i \in 1..Len(ran[d]) :
              (ran[d][i].st \in Fallible /\ ran[d][i].res = "err") =>
                  /\ i = Len(ran[d])
                  /\ Done(d)
                  /\ outcome[d] \in ErrorKind
        /\ \A i, j \in 1..Len(ran[d]) : ran[d][i].st = ran[d][j].st => i = j

\* C5: a non-zero exit of gcc -E, of the assembler/linker or of llc is fatal
\* for its stage: nothing runs after it and compile does not report success.
C5_ToolExitFatal ==
    \A d \in drivers :
        \A i \in 1..Len(ran[d]) :
            (ran[d][i].st \in ExternalTools /\ ran[d][i].res = "nonzero") =>
                /\ i = Len(ran[d])
                /\ Done(d)
                /\ outcome[d] # "Ok"

\* C6: no terminal state of compile leaves on disk an intermediate artifact
\* that the pipeline created and a later step consumed.
C6_ArtifactsReleased ==
    \A d \in drivers :
        Done(d) => (made[d] \cap used[d]) \cap fs = {}

\* C7: type checking starts only after resolution has succeeded, so an input
\* on which both the resolver and the type checker fail gets the Semantic
\* error only and never reaches the type checker.
C7_FirstErrorSemantic ==
    \A d \in drivers :
        /\ Ran(d, "Typecheck") => RanWith(d, "Resolve", "ok")
        /\ {"Resolve", "Typecheck"} \subseteq input[d] =>
              /\ ~Ran(d, "Typecheck")
              /\ outcome[d] # "TypeCheckError"
              /\ Ran(d, "Resolve") => outcome[d] = "SemanticError"

C7_Witness ==
    \E d \in drivers :
        /\ {"Resolve", "Typecheck"} \subseteq input[d]
        /\ RanWith(d, "Resolve", "err")
        /\ outcome[d] = "SemanticError"

\* C8: a failure to create or write the assembly file is returned from
\* compile as ErrorKind::IOError.
C8_WriteFailureIsIOError ==
    \A d \in drivers :
        RanWith(d, "Emit", "io") => Done(d) /\ outcome[d] = "IOError"

\* C9: an external tool that is missing or exits non-zero gives compile an
\* outcome that is neither success nor one of the ErrorKinds.
C9_ToolFaultDistinct ==
    \A d \in drivers :
        (/\ Done(d)
         /\ \E i \in 1..Len(ran[d]) :
               /\ ran[d][i].st \in ExternalTools
               /\ ran[d][i].res \in {"missing", "nonzero"})
        => outcome[d] \notin ErrorKind \cup {"Ok"}

\* The paths the file layout derives from input path p with stem S: p, the
\* preprocessor's output, S.i, S.s, S.ll, S.o and S.
LayoutPaths(p) ==
    LET S == SubSeq(p, 1, Len(p) - 2) IN
    {p, preprocess_output(p), S \o <<".", "i">>, S \o <<".", "s">>,
     S \o <<".", "l", "l">>, S \o <<".", "o">>, S}

Independent(d, e) == LayoutPaths(path[d]) \cap LayoutPaths(path[e]) = {}

\* Instance d finds the directory, where it looks, as its own steps left it.
AsAlone(d) ==
    /\ touched[d] \subseteq LayoutPaths(path[d])
    /\ fs \cap LayoutPaths(path[d]) = solo[d] \cap LayoutPaths(path[d])

\* C10 as stated: two instances whose input files have different name stems
\* never access a path the other accesses, under any interleaving, and each
\* sees the directory as it would alone.
C10_DistinctStems ==
    \A d, e \in drivers :
        (d # e /\ name[d] # name[e]) =>
            /\ touched[d] \cap touched[e] = {}
            /\ AsAlone(d)

\* C10 as amended: two instances whose derived paths are disjoint never
\* access a path the other accesses, under any interleaving, and each sees
\* the directory as it would alone.
C10_DisjointPaths ==
    \A d, e \in drivers :
        (d # e /\ Independent(d, e)) =>
            /\ touched[d] \cap touched[e] = {}
            /\ AsAlone(d)

C10_Witness ==
    \E d, e \in drivers :
        /\ d # e /\ Independent(d, e)
        /\ llvm[d] /\ feature /\ ~llvm[e]
        /\ RanWith(d, "Assemble", "zero") /\ outcome[d] = "Ok"
        /\ RanWith(e, "Assemble", "zero") /\ outcome[e] = "Ok"

\* The name stem S of an instance's input path, and the files the layout
\* derives from it.
Stem(d) == SubSeq(path[d], 1, Len(path[d]) - 2)

S_i(d) == Stem(d) \o <<".", "i">>

S_s(d) == Stem(d) \o <<".", "s">>

S_o(d) == Stem(d) \o <<".", "o">>

\* C13: for an input that passes Lex, Parse and Validate, IR generation has
\* no failure outcome: with stop stage IR compile returns Ok, with a later
\* stop stage the pipeline goes on from IR generation to Codegen (to the
\* translation that stands for it on the alternate backend).
C13_IrTotal ==
    \A d \in drivers :
        /\ (RanWith(d, "Typecheck", "ok") /\ stage[d] \in {"IR", "Codegen", "Full"}) =>
              pc[d] \in {"generate_ir", "generate_llvm_ir"} \/ Ran(d, "IR")
        /\ Ran(d, "IR") =>
              /\ RanWith(d, "IR", "ok")
              /\ stage[d] = "IR" => Done(d) /\ outcome[d] = "Ok"
              /\ (stage[d] # "IR" /\ ~Alternate(d)) =>
                    pc[d] = "codegen" \/ Ran(d, "Codegen")
              /\ (stage[d] # "IR" /\ Alternate(d)) =>
                    pc[d] = "emit_llvm" \/ Ran(d, "EmitLlvm")

C13_Witness ==
    \E d \in drivers :
        /\ stage[d] = "Full" /\ ~Alternate(d)
        /\ RanWith(d, "Typecheck", "ok")
        /\ RanWith(d, "IR", "ok")
        /\ Ran(d, "Codegen")

\* C14: for an input path ending in ".c" with stem S, the path preprocess
\* writes the expanded source to (and compile reads it from) and the path
\* clean_preprocessed deletes are the same path S.i.
C14_PreprocessedPath ==
    \A d \in drivers :
        RanWith(d, "Preprocess", "zero") =>
            /\ preprocess_output(path[d]) = S_i(d)
            /\ preprocessed_file(name[d]) = S_i(d)

\* C15: the assembler/linker is run on S.s and produces S.o when link is
\* false and S when link is true; S.s is not deleted before the assembler
\* call has returned.
C15_Assemble ==
    \A d \in drivers :
        /\ (RanWith(d, "Assemble", "zero") \/ RanWith(d, "Assemble", "nonzero")) =>
              S_s(d) \in used[d]
        /\ RanWith(d, "Assemble", "zero") =>
              /\ (IF link[d] THEN Stem(d) ELSE S_o(d)) \in made[d]
              /\ (IF link[d] THEN S_o(d) ELSE Stem(d)) \notin made[d]
        /\ (S_s(d) \in made[d] /\ ~Ran(d, "Assemble")) => S_s(d) \in fs

C15_Witness ==
    \E d \in drivers :
        /\ link[d]
        /\ RanWith(d, "Assemble", "zero")
        /\ outcome[d] = "Ok"
        /\ Stem(d) \in fs
        /\ S_s(d) \notin fs

\* C16: the error kind compile returns names exactly the stage that failed
\* (LexerError iff lexing failed, ParserError iff lexing succeeded and
\* parsing failed, SemanticError iff resolution failed, TypeCheckError iff
\* type checking failed, CodegenError iff code generation failed,
\* AsmEmitError iff emission failed), and the error carries the message and
\* the source span of the stage's error.
C16_ErrorAttribution ==
    \A d \in drivers :
        Done(d) =>
            /\ outcome[d] = "LexerError" <=> RanWith(d, "Lex", "err")
            /\ outcome[d] = "ParserError" <=>
                  (RanWith(d, "Lex", "ok") /\ RanWith(d, "Parse", "err"))
            /\ outcome[d] = "SemanticError" <=> RanWith(d, "Resolve", "err")
            /\ outcome[d] = "TypeCheckError" <=> RanWith(d, "Typecheck", "err")
            /\ outcome[d] = "CodegenError" <=> RanWith(d, "Codegen", "err")
            /\ outcome[d] = "AsmEmitError" <=> RanWith(d, "Emit", "err")
            /\ outcome[d] \in ErrorKind =>
                  {"message", "span"} \subseteq error_fields(outcome[d])

\* C17: on the native backend a compile call with stop stage Lex, Parse,
\* Validate, IR or Codegen never touches S.s, S.o or S and never runs the
\* assembler; S.s is created only for stage Full, by the step right before
\* assembling.
C17_NativeFrame ==
    \A d \in drivers :
        ~Alternate(d) =>
            /\ stage[d] # "Full" =>
                  /\ touched[d] \cap {S_s(d), S_o(d), Stem(d)} = {}
                  /\ ~Ran(d, "Assemble")
            /\ S_s(d) \in made[d] => stage[d] = "Full" /\ Ran(d, "Emit")
            /\ RanWith(d, "Emit", "ok") =>
                  /\ S_s(d) \in made[d]
                  /\ pc[d] = "assemble" \/ Ran(d, "Assemble")

C17_Witness ==
    \E d \in drivers :
        /\ ~Alternate(d)
        /\ stage[d] = "Codegen"
        /\ RanWith(d, "Codegen", "ok")
        /\ outcome[d] = "Ok"

\* C18: the expanded-source file S.i is read and deleted before lexing
\* starts: once the lexer has run, neither S.i nor the file the preprocessor
\* wrote exists, on any path to the end of compile.
C18_ExpandedSourceGone ==
    \A d \in drivers :
        Ran(d, "Lex") =>
            /\ S_i(d) \notin fs
            /\ preprocess_output(path[d]) \notin fs

\* C19: when every stage function and every tool call returns, compile
\* reaches a terminal state (Ok, a typed error or a panic) for every stop
\* stage, link flag and backend.
C19_Terminates == <>(\A d \in drivers : Done(d))

C19_Witness ==
    \E d \in drivers :
        /\ Alternate(d) /\ stage[d] = "Full"
        /\ RanWith(d, "Assemble", "zero")
        /\ Done(d) /\ outcome[d] = "Ok"

\* The flags given on the command line of instance d.
Flags(d) == {f \in {"lex", "parse", "code_gen"} : cli[d][f]}

\* C11: the flags select the stop stage: --lex stops after Lex, --parse
\* after Parse, --code-gen after Codegen, and with none of them the
\* pipeline runs the Full stage.  Stated of a run that has reached the lexer.
C11_FlagsSelectStage ==
    \A d \in drivers :
        (cli[d].main /\ Ran(d, "Lex")) =>
            /\ Flags(d) = {"lex"} => stage[d] = "Lex"
            /\ Flags(d) = {"parse"} => stage[d] = "Parse"
            /\ Flags(d) = {"code_gen"} => stage[d] = "Codegen"
            /\ Flags(d) = {} => stage[d] = "Full"

\* C12: the process exits with zero when compilation succeeds, and each
\* ErrorKind gives a non-zero exit code different from that of every other
\* ErrorKind.
C12_ExitCodes ==
    \A d \in drivers :
        (cli[d].main /\ Done(d)) =>
            /\ outcome[d] = "Ok" => main_exit(outcome[d]) = 0
            /\ outcome[d] \in ErrorKind =>
                  /\ main_exit(outcome[d]) # 0
                  /\ \A k \in ErrorKind \ {outcome[d]} :
                        main_exit(k) # main_exit(outcome[d])

====
